---- MODULE Spec2Model ----
(***************************************************************************)
(* Relevance-list generation and ranking-metric evaluation of              *)
(* recommendation/task/ifood.py, and the metadata index validation of      *)
(* recommendation/data.py.                                                 *)
(*                                                                         *)
(* Specifications:                                                         *)
(*   SpecBuild  one call of one of the three relevance-list builders       *)
(*   SpecScore  _evaluate_account_merchant_tuples, batch by batch          *)
(*   SpecRun    the run methods of the three relevance-list tasks          *)
(*   SpecEval   EvaluateIfoodModel.run with its pool of workers            *)
(*   SpecMeta   preprocess_metadata_data_frame                             *)
(*   SpecNdcg   one call of ndcg_at_k with a bound cutoff                  *)
(*   SpecRepeat repeated calls of _generate_relevance_list                 *)
(***************************************************************************)
EXTENDS Integers, Sequences, FiniteSets, TLC

VARIABLES
    \* ---- one call of a relevance-list builder (ifood.py 27-45)
    builder,              \* which function is called: "model", "random", "popular"
    account_idx,          \* argument account_idx
    ordered_merchant_idx, \* argument ordered_merchant_idx
    merchant_idx_list,    \* argument merchant_idx_list (the caller's list object)
    scores_per_tuple,     \* argument scores_per_tuple: (account, merchant) -> score
    scores_per_merchant,  \* argument scores_per_merchant: merchant -> score
    outcome,              \* "ready", "returned" or "raised" (KeyError)
    relevance_list,       \* the returned list
    key_error,            \* the key a KeyError carries, <<>> when none
    \* ---- _evaluate_account_merchant_tuples (ifood.py 61-82)
    tuples_df,            \* the pair table: a sequence of (account_idx, merchant_idx) rows
    module,               \* the trained module: the score it gives each pair
    batch_size,           \* the task's batch_size parameter
    eval_pc,              \* "idle", "scoring", "returned"
    batches_done,         \* how many chunks of rows have been scored
    scores,               \* the local list scores
    evaluated,            \* the dictionary the method returns
    \* ---- the run() of a relevance-list generation task (ifood.py 84-110, 221-237, 264-288)
    task,                 \* "model", "random" or "popular": whose run() it is
    interactions_df,      \* the interaction corpus: rows of (merchant_idx, buys)
    orders_df,            \* the orders frame as read: rows of (order_id, account_idx,
                          \*   merchant_idx, merchant_idx_list)
    run_pc,               \* "idle", "start", "scored", "filtered", "done", "failed"
    run_scores_per_tuple, \* the local scores_per_tuple of the model-scored run
    scores_dict,          \* the local scores_dict of the most-popular run
    filtered_df,          \* orders_df after the exclusion filter
    relevance_column,     \* the relevance lists built so far, in row order
    lookups,              \* the score lookups made: (order_id, key) pairs
    run_error,            \* the key of the KeyError that ended the run, <<>> when none
    output_written,       \* whether orders_with_relevance_lists.csv was written
    output,               \* its rows: (order_id, relevance_list as csv text)
    \* ---- EvaluateIfoodModel.run (ifood.py 161-207)
    csv_rows,             \* the relevance-list file read: rows of (order_id, relevance_list)
    num_processes,        \* the task's num_processes parameter: the size of the pool
    ev_pc,                \* "idle", "start", "mapping", "mapped", "done"
    eval_df,              \* the frame: column name -> column (a sequence, one entry a row)
    stage,                \* which p.map call is under way (a position in EvalStages)
    tasks_taken,          \* how many chunks of the map were handed to workers
    in_flight,            \* the chunks workers are computing
    results,              \* result slot -> the results of one chunk
    metrics,              \* metrics.json, <<>> until written
    orders_with_metrics,  \* orders_with_metrics.csv, <<>> until written
    \* ---- preprocess_metadata_data_frame (data.py 32-44)
    metadata_arg,         \* argument metadata_data_frame: rows of (item_idx, column values)
    metadata_data_frame,  \* the local frame after set_index(...).sort_index()
    meta_pc,              \* "idle", "start", "sorted", "building", "raised", "returned"
    columns_done,         \* how many metadata columns the loop has handled
    embeddings_for_metadata, \* column name -> array built so far
    value_error,          \* the message of the ValueError raised, "" when none
    \* ---- one call of functools.partial(ndcg_at_k, k=k) (ifood.py 179-188)
    ndcg_r,               \* the relevance vector the call is given
    ndcg_k,               \* the cutoff bound to k
    ndcg_out,             \* <<>> before the call, <<value>> once it has returned
    \* ---- repeated calls of _generate_relevance_list (ifood.py 27-32)
    calls,                \* how many calls have been made with the same arguments
    first_result          \* what the first call gave: <<outcome, relevance_list, key_error>>

buildVars == <<builder, account_idx, ordered_merchant_idx, merchant_idx_list,
               scores_per_tuple, scores_per_merchant, outcome, relevance_list,
               key_error>>

scoreVars == <<tuples_df, module, batch_size, eval_pc, batches_done, scores, evaluated>>

runVars == <<task, interactions_df, orders_df, run_pc, run_scores_per_tuple, scores_dict,
             filtered_df, relevance_column, lookups, run_error, output_written, output>>

evalVars == <<csv_rows, num_processes, ev_pc, eval_df, stage, tasks_taken, in_flight, results,
              metrics, orders_with_metrics>>

metaVars == <<metadata_arg, metadata_data_frame, meta_pc, columns_done,
              embeddings_for_metadata, value_error>>

ndcgVars == <<ndcg_r, ndcg_k, ndcg_out>>

repeatVars == <<calls, first_result>>

vars == <<buildVars, scoreVars, runVars, evalVars, metaVars, ndcgVars, repeatVars>>

\* ------------------------------------------------------------------ bounds

\* Longest candidate list handed to a builder.
MaxLen == 3

Accounts == {0, 1}
Merchants == {0, 1, 2}
Scores == {0, 1, 2}
Pairs == Accounts \X Merchants

\* ----------------------------------------------------------------- helpers

Range(s) == {s[i] : i \in DOMAIN s}

NoDuplicates(s) == \A i, j \in DOMAIN s : s[i] = s[j] => i = j

RECURSIVE SumSeq(_)
SumSeq(s) == IF s = <<>> THEN 0 ELSE s[1] + SumSeq(Tail(s))

\* All sequences over S of length at most n.
SeqsUpTo(S, n) == UNION {[1..k -> S] : k \in 0..n}

\* All orderings of the elements (with multiplicity) of sequence s.
Orderings(s) ==
    {[i \in DOMAIN s |-> s[f[i]]] :
        f \in {g \in [DOMAIN s -> DOMAIN s] : \A i, j \in DOMAIN s : g[i] = g[j] => i = j}}

\* --------------------------------------------- the builders (ifood.py 27-45)

\* zip(scores, merchant_idx_list): the (score, merchant_idx) tuples.
Zip(score_list, idx_list) == [i \in DOMAIN idx_list |-> <<score_list[i], idx_list[i]>>]

\* Python's order on 2-tuples: by first component, then by second.
TupleLess(a, b) == a[1] < b[1] \/ (a[1] = b[1] /\ a[2] < b[2])

\* A mutant order: by the score alone (what a key=score sort would see).
ScoreLess(a, b) == a[1] < b[1]

\* The order sorted() applies to the zipped tuples.
SortLess(a, b) == TupleLess(a, b)

\* x put into a descending-sorted sequence after every element not less than it.
RECURSIVE InsertDescending(_, _)
InsertDescending(x, s) ==
    IF s = <<>> THEN <<x>>
    ELSE IF SortLess(Head(s), x) THEN <<x>> \o s
    ELSE <<Head(s)>> \o InsertDescending(x, Tail(s))

RECURSIVE InsertAscending(_, _)
InsertAscending(x, s) ==
    IF s = <<>> THEN <<x>>
    ELSE IF SortLess(x, Head(s)) THEN <<x>> \o s
    ELSE <<Head(s)>> \o InsertAscending(x, Tail(s))

RECURSIVE SortedAscending(_)
SortedAscending(s) ==
    IF s = <<>> THEN <<>>
    ELSE InsertAscending(s[Len(s)], SortedAscending(SubSeq(s, 1, Len(s) - 1)))

\* sorted(s, reverse=True): stable, elements that compare equal keep their order.
RECURSIVE SortedReverse(_)
SortedReverse(s) ==
    IF s = <<>> THEN <<>>
    ELSE InsertDescending(s[Len(s)], SortedReverse(SubSeq(s, 1, Len(s) - 1)))

\* [merchant_idx for _, merchant_idx in sorted(zip(scores, list), reverse=True)]
SortedMerchantIdxList(score_list, idx_list) ==
    LET sorted == SortedReverse(Zip(score_list, idx_list))
    IN  [i \in DOMAIN sorted |-> sorted[i][2]]

\* A mutant of the marking: the comparison is >= where the code has ==.
MarkAtLeast(ordered, s) == [i \in DOMAIN s |-> IF s[i] >= ordered THEN 1 ELSE 0]

\* [1 if merchant_idx == ordered_merchant_idx else 0 for merchant_idx in s]
MarkOrdered(ordered, s) == [i \in DOMAIN s |-> IF s[i] = ordered THEN 1 ELSE 0]

\* The first key of the list that the dictionary lacks: the dictionary lookups
\* run in list order and the first failing one raises KeyError(key).
FirstMissing(keys, dict) ==
    LET missing == {i \in DOMAIN keys : keys[i] \notin DOMAIN dict}
    IN  IF missing = {} THEN <<>>
        ELSE <<keys[CHOOSE i \in missing : \A j \in missing : i <= j]>>

\* A mutant of the key: the pair the other way round.
SwappedKeys(account, idx_list) == [i \in DOMAIN idx_list |-> <<idx_list[i], account>>]

\* The keys the lookups use: (account_idx, merchant_idx) for each candidate.
TupleKeys(account, idx_list) == [i \in DOMAIN idx_list |-> <<account, idx_list[i]>>]

_generate_relevance_list(account, ordered, idx_list, per_tuple) ==
    LET looked_up == [i \in DOMAIN idx_list |-> per_tuple[TupleKeys(account, idx_list)[i]]]
    IN  MarkOrdered(ordered, SortedMerchantIdxList(looked_up, idx_list))

_generate_relevance_list_from_merchant_scores(ordered, idx_list, per_merchant) ==
    LET looked_up == [i \in DOMAIN idx_list |-> per_merchant[idx_list[i]]]
    IN  MarkOrdered(ordered, SortedMerchantIdxList(looked_up, idx_list))

\* np.random.shuffle(merchant_idx_list): any ordering of the list, in place.
Shuffles(idx_list) == Orderings(idx_list)

_generate_random_relevance_list(ordered, shuffled) == MarkOrdered(ordered, shuffled)

\* ------------------- _evaluate_account_merchant_tuples (ifood.py 61-82)

Min(a, b) == IF a < b THEN a ELSE b

\* recommendation.utils.chunks(range(n), size): the successive slices of at most
\* size row positions, in order.
chunks(n, size) ==
    [k \in 1..((n + size - 1) \div size) |->
        [i \in 1..Min(size, n - (k - 1) * size) |-> (k - 1) * size + i]]

\* module(account_idx tensor, merchant_idx tensor) on the rows at positions indices.
BatchScores(mod, df, indices) == [i \in DOMAIN indices |-> mod[df[indices[i]]]]

\* A mutant of the accumulation: the batch replaces the list instead of extending it.
ReplaceScores(so_far, batch) == batch

\* scores.extend(batch_scores)
ExtendScores(so_far, batch) == so_far \o batch

\* The list scores after the first k chunks.
RECURSIVE ScoresAfter(_, _, _, _)
ScoresAfter(k, mod, df, size) ==
    IF k = 0 THEN <<>>
    ELSE ExtendScores(ScoresAfter(k - 1, mod, df, size),
                      BatchScores(mod, df, chunks(Len(df), size)[k]))

\* {(account_idx, merchant_idx): score for ... in zip(accounts, merchants, scores)}:
\* zip stops at the shorter input and a later row overrides an earlier equal key.
ScoreDictionary(df, score_list) ==
    LET n    == Min(Len(df), Len(score_list))
        keys == {df[i] : i \in 1..n}
    IN  [p \in keys |->
            score_list[CHOOSE i \in 1..n : df[i] = p /\ \A j \in 1..n : df[j] = p => j <= i]]

_evaluate_account_merchant_tuples(df, mod, size) ==
    ScoreDictionary(df, ScoresAfter(Len(chunks(Len(df), size)), mod, df, size))

\* ------------------------------------------------- idle values of each part

IdleBuild ==
    /\ builder = "none"
    /\ account_idx = 0
    /\ ordered_merchant_idx = 0
    /\ merchant_idx_list = <<>>
    /\ scores_per_tuple = <<>>
    /\ scores_per_merchant = <<>>
    /\ outcome = "idle"
    /\ relevance_list = <<>>
    /\ key_error = <<>>

IdleScore ==
    /\ tuples_df = <<>>
    /\ module = <<>>
    /\ batch_size = 1
    /\ eval_pc = "idle"
    /\ batches_done = 0
    /\ scores = <<>>
    /\ evaluated = <<>>

IdleRun ==
    /\ task = "none"
    /\ interactions_df = <<>>
    /\ orders_df = <<>>
    /\ run_pc = "idle"
    /\ run_scores_per_tuple = <<>>
    /\ scores_dict = <<>>
    /\ filtered_df = <<>>
    /\ relevance_column = <<>>
    /\ lookups = {}
    /\ run_error = <<>>
    /\ output_written = FALSE
    /\ output = <<>>

IdleEval ==
    /\ csv_rows = <<>>
    /\ num_processes = 1
    /\ ev_pc = "idle"
    /\ eval_df = <<>>
    /\ stage = 0
    /\ tasks_taken = 0
    /\ in_flight = {}
    /\ results = <<>>
    /\ metrics = <<>>
    /\ orders_with_metrics = <<>>

IdleMeta ==
    /\ metadata_arg = <<>>
    /\ metadata_data_frame = <<>>
    /\ meta_pc = "idle"
    /\ columns_done = 0
    /\ embeddings_for_metadata = <<>>
    /\ value_error = ""

IdleNdcg ==
    /\ ndcg_r = <<>>
    /\ ndcg_k = 0
    /\ ndcg_out = <<>>

IdleRepeat ==
    /\ calls = 0
    /\ first_result = <<>>

\* ------------------------------------------------- SpecBuild: one builder call

\* The per-merchant score tables of a call: any partial map from merchants to scores.
Rows == UNION {[D -> Scores] : D \in SUBSET Merchants}

\* The score tables of a call: any partial map from pairs to scores.
ScoreTables == UNION {[D -> Scores] : D \in SUBSET Pairs}

InitBuild ==
    /\ builder \in {"model", "random", "popular"}
    /\ ordered_merchant_idx \in Merchants
    /\ merchant_idx_list \in SeqsUpTo(Merchants, MaxLen)
    /\ \/ /\ builder = "model"
          /\ account_idx \in Accounts
          /\ scores_per_tuple \in ScoreTables
          /\ scores_per_merchant = <<>>
       \/ /\ builder = "popular"
          /\ account_idx = 0
          /\ scores_per_tuple = <<>>
          /\ scores_per_merchant \in Rows
       \/ /\ builder = "random"
          /\ account_idx = 0
          /\ scores_per_tuple = <<>>
          /\ scores_per_merchant = <<>>
    /\ outcome = "ready"
    /\ relevance_list = <<>>
    /\ key_error = <<>>
    /\ IdleScore
    /\ IdleRun
    /\ IdleEval
    /\ IdleMeta
    /\ IdleNdcg
    /\ IdleRepeat

CallGenerateRelevanceList ==
    /\ builder = "model"
    /\ outcome = "ready"
    /\ LET missing == FirstMissing(TupleKeys(account_idx, merchant_idx_list), scores_per_tuple)
       IN  IF missing # <<>>
           THEN /\ outcome' = "raised"
                /\ key_error' = missing
                /\ relevance_list' = relevance_list
           ELSE /\ outcome' = "returned"
                /\ key_error' = key_error
                /\ relevance_list' = _generate_relevance_list(
                        account_idx, ordered_merchant_idx, merchant_idx_list, scores_per_tuple)
    /\ UNCHANGED <<builder, account_idx, ordered_merchant_idx, merchant_idx_list,
                   scores_per_tuple, scores_per_merchant>>
    /\ UNCHANGED <<scoreVars, runVars, evalVars, metaVars, ndcgVars, repeatVars>>

CallGenerateRandomRelevanceList ==
    /\ builder = "random"
    /\ outcome = "ready"
    /\ \E shuffled \in Shuffles(merchant_idx_list) :
          /\ merchant_idx_list' = shuffled
          /\ relevance_list' = _generate_random_relevance_list(ordered_merchant_idx, shuffled)
    /\ outcome' = "returned"
    /\ UNCHANGED <<builder, account_idx, ordered_merchant_idx, scores_per_tuple,
                   scores_per_merchant, key_error>>
    /\ UNCHANGED <<scoreVars, runVars, evalVars, metaVars, ndcgVars, repeatVars>>

CallGenerateRelevanceListFromMerchantScores ==
    /\ builder = "popular"
    /\ outcome = "ready"
    /\ LET missing == FirstMissing(merchant_idx_list, scores_per_merchant)
       IN  IF missing # <<>>
           THEN /\ outcome' = "raised"
                /\ key_error' = missing
                /\ relevance_list' = relevance_list
           ELSE /\ outcome' = "returned"
                /\ key_error' = key_error
                /\ relevance_list' = _generate_relevance_list_from_merchant_scores(
                        ordered_merchant_idx, merchant_idx_list, scores_per_merchant)
    /\ UNCHANGED <<builder, account_idx, ordered_merchant_idx, merchant_idx_list,
                   scores_per_tuple, scores_per_merchant>>
    /\ UNCHANGED <<scoreVars, runVars, evalVars, metaVars, ndcgVars, repeatVars>>

NextBuild ==
    \/ CallGenerateRelevanceList
    \/ CallGenerateRandomRelevanceList
    \/ CallGenerateRelevanceListFromMerchantScores

SpecBuild == InitBuild /\ [][NextBuild]_vars

\* The call is one of a score-sorted builder, and it has returned.
ScoreSortedReturned == builder \in {"model", "popular"} /\ outcome = "returned"

\* The score the called builder looked up for merchant m.
ScoreOf(m) ==
    IF builder = "model" THEN scores_per_tuple[<<account_idx, m>>] ELSE scores_per_merchant[m]

\* The chosen item is in the pool and the pool names no item twice.
ChosenInDuplicateFreePool ==
    /\ ordered_merchant_idx \in Range(merchant_idx_list)
    /\ NoDuplicates(merchant_idx_list)

AllPairsScored ==
    \A i \in DOMAIN merchant_idx_list :
        <<account_idx, merchant_idx_list[i]>> \in DOMAIN scores_per_tuple

\* C1: for a transaction whose chosen item is in its duplicate-free pool and whose
\* pairs are all scored, _generate_relevance_list returns a 0/1 list as long as
\* the pool, whose single 1 sits where the chosen item stands once the
\* candidates are ordered by descending score: no candidate with a higher score
\* comes after it and none with a lower score before it. Pool [A,B,C] with scores
\* A < C < B and chosen C gives [0,1,0].
C1_SingleOneAtSortedPosition ==
    (builder = "model" /\ outcome # "ready" /\ ChosenInDuplicateFreePool /\ AllPairsScored)
    => /\ outcome = "returned"
       /\ Len(relevance_list) = Len(merchant_idx_list)
       /\ \A i \in DOMAIN relevance_list : relevance_list[i] \in {0, 1}
       /\ \E p \in DOMAIN relevance_list :
             /\ relevance_list[p] = 1
             /\ \A q \in DOMAIN relevance_list : q # p => relevance_list[q] = 0
             /\ Cardinality({m \in Range(merchant_idx_list) :
                                ScoreOf(m) > ScoreOf(ordered_merchant_idx)}) <= p - 1
             /\ p - 1 <= Cardinality({m \in Range(merchant_idx_list) \ {ordered_merchant_idx} :
                                        ScoreOf(m) >= ScoreOf(ordered_merchant_idx)})
       /\ (/\ merchant_idx_list = <<0, 1, 2>>
           /\ ordered_merchant_idx = 2
           /\ ScoreOf(0) = 0 /\ ScoreOf(1) = 2 /\ ScoreOf(2) = 1)
          => relevance_list = <<0, 1, 0>>

\* The example of C1 has been computed.
C1_Witness ==
    /\ builder = "model" /\ outcome = "returned"
    /\ merchant_idx_list = <<0, 1, 2>>
    /\ ordered_merchant_idx = 2
    /\ AllPairsScored
    /\ ScoreOf(0) = 0 /\ ScoreOf(1) = 2 /\ ScoreOf(2) = 1
    /\ relevance_list = <<0, 1, 0>>

\* The rank of pool position i when the pool is ordered by descending score and
\* tied candidates keep the order they have in the pool.
RankTiesByListPosition(i) ==
    1 + Cardinality({j \in DOMAIN merchant_idx_list :
            LET a == merchant_idx_list[j]
                b == merchant_idx_list[i]
            IN  ScoreOf(a) > ScoreOf(b) \/ (ScoreOf(a) = ScoreOf(b) /\ j < i)})

\* The rank of pool position i when the pool is ordered by descending score and
\* tied candidates by descending merchant index (equal entries in pool order).
RankTiesByDescendingIndex(i) ==
    1 + Cardinality({j \in DOMAIN merchant_idx_list :
            LET a == merchant_idx_list[j]
                b == merchant_idx_list[i]
            IN  \/ ScoreOf(a) > ScoreOf(b)
                \/ ScoreOf(a) = ScoreOf(b) /\ a > b
                \/ ScoreOf(a) = ScoreOf(b) /\ a = b /\ j < i})

\* C2 as stated: the score-sorted builders rank tied candidates in the order they
\* had in the candidate list, so the returned list marks the chosen item at its
\* rank in the pool sorted by (score descending, list position).
C2_TiesKeepListOrder ==
    ScoreSortedReturned
    => /\ Len(relevance_list) = Len(merchant_idx_list)
       /\ \A i \in DOMAIN merchant_idx_list :
             relevance_list[RankTiesByListPosition(i)] =
                IF merchant_idx_list[i] = ordered_merchant_idx THEN 1 ELSE 0

\* C2 amended: the score-sorted builders rank tied candidates by descending
\* merchant index (the sort is over the (score, merchant_idx) tuples, reversed),
\* so the returned list marks the chosen item at its rank in the pool sorted by
\* (score descending, merchant index descending).
C2_TiesByDescendingIndex ==
    ScoreSortedReturned
    => /\ Len(relevance_list) = Len(merchant_idx_list)
       /\ \A i \in DOMAIN merchant_idx_list :
             relevance_list[RankTiesByDescendingIndex(i)] =
                IF merchant_idx_list[i] = ordered_merchant_idx THEN 1 ELSE 0

\* Two tied candidates were ranked, the chosen one first in the pool and last
\* in the ranking.
C2_Witness ==
    /\ ScoreSortedReturned
    /\ merchant_idx_list = <<0, 1>>
    /\ ordered_merchant_idx = 0
    /\ ScoreOf(0) = ScoreOf(1)
    /\ relevance_list = <<0, 1>>

\* ------------------------- SpecScore: the score table built batch by batch

\* Longest pair table, and largest batch size.
MaxTuples == 3
MaxBatch == 3

RunMerchants == {0, 1}
RunPairs == Accounts \X RunMerchants

InitScore ==
    /\ tuples_df \in SeqsUpTo(RunPairs, MaxTuples)
    /\ module \in [RunPairs -> Scores]
    /\ batch_size \in 1..MaxBatch
    /\ eval_pc = "scoring"
    /\ batches_done = 0
    /\ scores = <<>>
    /\ evaluated = <<>>
    /\ IdleBuild
    /\ IdleRun
    /\ IdleEval
    /\ IdleMeta
    /\ IdleNdcg
    /\ IdleRepeat

\* One turn of the loop over chunks(range(len(tuples_df)), batch_size).
ScoreBatch ==
    /\ eval_pc = "scoring"
    /\ batches_done < Len(chunks(Len(tuples_df), batch_size))
    /\ batches_done' = batches_done + 1
    /\ scores' = ExtendScores(scores,
                    BatchScores(module, tuples_df,
                                chunks(Len(tuples_df), batch_size)[batches_done + 1]))
    /\ UNCHANGED <<tuples_df, module, batch_size, eval_pc, evaluated>>
    /\ UNCHANGED <<buildVars, runVars, evalVars, metaVars, ndcgVars, repeatVars>>

\* The loop is over: build and return the dictionary.
ReturnDictionary ==
    /\ eval_pc = "scoring"
    /\ batches_done = Len(chunks(Len(tuples_df), batch_size))
    /\ evaluated' = ScoreDictionary(tuples_df, scores)
    /\ eval_pc' = "returned"
    /\ UNCHANGED <<tuples_df, module, batch_size, batches_done, scores>>
    /\ UNCHANGED <<buildVars, runVars, evalVars, metaVars, ndcgVars, repeatVars>>

NextScore == ScoreBatch \/ ReturnDictionary

SpecScore == InitScore /\ [][NextScore]_vars

\* C5: whatever the batch size and the pair table, the returned score table has
\* exactly the pairs of the pair table as keys and maps the pair of every row to
\* the score the module gives that row; the scores were gathered in row order,
\* and the table is the one a single batch holding every row yields.
C5_ScoreTableCoversPairTable ==
    eval_pc = "returned"
    => /\ DOMAIN evaluated = Range(tuples_df)
       /\ Len(scores) = Len(tuples_df)
       /\ \A i \in DOMAIN tuples_df :
             /\ scores[i] = module[tuples_df[i]]
             /\ evaluated[tuples_df[i]] = module[tuples_df[i]]
       /\ \A p \in RunPairs \ Range(tuples_df) : p \notin DOMAIN evaluated
       /\ evaluated = ScoreDictionary(tuples_df,
                         BatchScores(module, tuples_df, [i \in DOMAIN tuples_df |-> i]))

\* A table of three rows was scored in two batches, the last one partial, by a
\* module that tells the rows apart.
C5_Witness ==
    /\ eval_pc = "returned"
    /\ Len(tuples_df) = 3
    /\ batch_size = 2
    /\ batches_done = 2
    /\ Cardinality(DOMAIN evaluated) = 3
    /\ Cardinality({evaluated[p] : p \in DOMAIN evaluated}) = 3

\* ------------------------------ SpecRun: the run() of a generation task

\* Most rows of the orders frame, and of the interaction corpus.
MaxOrders == 2
MaxInteractions == 2

\* batch_size: int = luigi.IntParameter(default=100000)
DefaultBatchSize == 100000

Buys == {1, 2}
RunPools == SeqsUpTo(RunMerchants, 2)

\* ---- the text of a relevance list in the csv file

Digit(n) == IF n = 0 THEN "0" ELSE "1"

DigitValue(c) == IF c = "0" THEN 0 ELSE 1

RECURSIVE ReprItems(_)
ReprItems(v) ==
    IF Len(v) = 1 THEN <<Digit(v[1])>>
    ELSE <<Digit(v[1]), ",", " ">> \o ReprItems(Tail(v))

\* str(list) of a list of 0s and 1s, character by character: "[0, 1, 0]".
ListRepr(v) == IF v = <<>> THEN <<"[", "]">> ELSE <<"[">> \o ReprItems(v) \o <<"]">>

\* to_csv quotes a field that holds the delimiter.
CsvField(text) ==
    IF \E i \in DOMAIN text : text[i] = "," THEN <<"\"">> \o text \o <<"\"">> ELSE text

\* read_csv takes the quotes off a quoted field.
CsvValue(field) ==
    IF field # <<>> /\ field[1] = "\"" THEN SubSeq(field, 2, Len(field) - 1) ELSE field

RECURSIVE EvalItems(_)
EvalItems(t) ==
    IF t[1] = "]" THEN <<>>
    ELSE IF t[1] = "," THEN EvalItems(SubSeq(t, 3, Len(t)))
    ELSE <<DigitValue(t[1])>> \o EvalItems(Tail(t))

\* ast.literal_eval of the text of a list of 0s and 1s.
literal_eval(text) == EvalItems(Tail(text))

\* ---- the steps of run()

\* A mutant of the corpus aggregate: the rows of merchant m counted, not summed.
RECURSIVE CountOver(_, _)
CountOver(df, m) ==
    IF df = <<>> THEN 0
    ELSE (IF Head(df).merchant_idx = m THEN 1 ELSE 0) + CountOver(Tail(df), m)

\* The sum of buys over the rows of merchant m.
RECURSIVE SumOver(_, _)
SumOver(df, m) ==
    IF df = <<>> THEN 0
    ELSE (IF Head(df).merchant_idx = m THEN Head(df).buys ELSE 0) + SumOver(Tail(df), m)

\* interactions_df.groupby("merchant_idx")["buys"].sum() as a dictionary: one key
\* for each merchant that has a row.
GroupBySum(df) == [m \in {df[i].merchant_idx : i \in DOMAIN df} |-> SumOver(df, m)]

\* A mutant of the exclusion filter: every row is kept.
RetainAll(row) == TRUE

\* row["merchant_idx"] in row["merchant_idx_list"]
Retained(row) == row.merchant_idx \in Range(row.merchant_idx_list)

\* orders_df[orders_df.apply(lambda row: ..., axis=1)]
FilterFrame(df) == SelectSeq(df, Retained)

\* The keys looked up for a row until the first missing one, it included.
LookedUp(keys, dict) ==
    LET missing == {i \in DOMAIN keys : keys[i] \notin DOMAIN dict}
    IN  {keys[i] : i \in {k \in DOMAIN keys : \A j \in missing : k <= j}}

\* The elements of a set of pairs as a sequence in increasing order.
RECURSIVE SortedSeqOf(_)
SortedSeqOf(D) ==
    IF D = {} THEN <<>>
    ELSE LET least == CHOOSE p \in D : \A q \in D : q = p \/ TupleLess(p, q)
         IN  <<least>> \o SortedSeqOf(D \ {least})

\* The pair tables of a run: all the pairs, or all but one, listed once each in
\* increasing order.
PairTables == {SortedSeqOf(D) : D \in {RunPairs} \cup {RunPairs \ {p} : p \in RunPairs}}

\* The trained modules of a run: one that tells pairs apart, one that ties them all.
RunModules == {[p \in RunPairs |-> (p[1] + p[2]) % 3], [p \in RunPairs |-> 1]}

\* The rows of an orders frame. Only the model-scored run reads account_idx, so
\* only there is it drawn freely; in the other runs the rows alternate accounts.
OrderCells(t) ==
    [account_idx : IF t = "model" THEN Accounts ELSE {0},
     merchant_idx : RunMerchants,
     merchant_idx_list : RunPools]

InitRun ==
    /\ task \in {"model", "random", "popular"}
    /\ \E n \in 0..MaxOrders : \E cells \in [1..n -> OrderCells(task)] :
          orders_df = [i \in 1..n |->
                          [order_id |-> i,
                           account_idx |-> IF task = "model" THEN cells[i].account_idx
                                           ELSE (i - 1) % 2,
                           merchant_idx |-> cells[i].merchant_idx,
                           merchant_idx_list |-> cells[i].merchant_idx_list]]
    /\ IF task = "model"
       THEN /\ tuples_df \in PairTables
            /\ module \in RunModules
            /\ batch_size = DefaultBatchSize
       ELSE /\ tuples_df = <<>>
            /\ module = <<>>
            /\ batch_size = 1
    /\ IF task = "popular"
       THEN interactions_df \in SeqsUpTo([merchant_idx : RunMerchants, buys : Buys], MaxInteractions)
       ELSE interactions_df = <<>>
    /\ run_pc = "start"
    /\ run_scores_per_tuple = <<>>
    /\ scores_dict = <<>>
    /\ filtered_df = <<>>
    /\ relevance_column = <<>>
    /\ lookups = {}
    /\ run_error = <<>>
    /\ output_written = FALSE
    /\ output = <<>>
    /\ eval_pc = "idle"
    /\ batches_done = 0
    /\ scores = <<>>
    /\ evaluated = <<>>
    /\ IdleBuild
    /\ IdleEval
    /\ IdleMeta
    /\ IdleNdcg
    /\ IdleRepeat

\* scores_per_tuple = self._evaluate_account_merchant_tuples()
ModelEvaluate ==
    /\ task = "model"
    /\ run_pc = "start"
    /\ run_scores_per_tuple' = _evaluate_account_merchant_tuples(tuples_df, module, batch_size)
    /\ run_pc' = "scored"
    /\ UNCHANGED <<task, interactions_df, orders_df, scores_dict, filtered_df,
                   relevance_column, lookups, run_error, output_written, output>>
    /\ UNCHANGED <<buildVars, scoreVars, evalVars, metaVars, ndcgVars, repeatVars>>

\* scores = interactions_df.groupby("merchant_idx")["buys"].sum(); scores_dict = {...}
PopularScores ==
    /\ task = "popular"
    /\ run_pc = "start"
    /\ scores_dict' = GroupBySum(interactions_df)
    /\ run_pc' = "scored"
    /\ UNCHANGED <<task, interactions_df, orders_df, run_scores_per_tuple, filtered_df,
                   relevance_column, lookups, run_error, output_written, output>>
    /\ UNCHANGED <<buildVars, scoreVars, evalVars, metaVars, ndcgVars, repeatVars>>

\* Filtering orders where the ordered merchant isn't in the list.
FilterOrders ==
    /\ run_pc = IF task = "random" THEN "start" ELSE "scored"
    /\ filtered_df' = FilterFrame(orders_df)
    /\ run_pc' = "filtered"
    /\ UNCHANGED <<task, interactions_df, orders_df, run_scores_per_tuple, scores_dict,
                   relevance_column, lookups, run_error, output_written, output>>
    /\ UNCHANGED <<buildVars, scoreVars, evalVars, metaVars, ndcgVars, repeatVars>>

\* The row whose relevance list starmap builds next.
NextRow == filtered_df[Len(relevance_column) + 1]

RowsLeft == run_pc = "filtered" /\ Len(relevance_column) < Len(filtered_df)

\* One item of starmap(partial(_generate_relevance_list, scores_per_tuple=...), ...).
BuildModelRow ==
    /\ task = "model"
    /\ RowsLeft
    /\ LET keys    == TupleKeys(NextRow.account_idx, NextRow.merchant_idx_list)
           missing == FirstMissing(keys, run_scores_per_tuple)
       IN  /\ lookups' = lookups \cup
                            ({NextRow.order_id} \X LookedUp(keys, run_scores_per_tuple))
           /\ IF missing # <<>>
              THEN /\ run_pc' = "failed"
                   /\ run_error' = missing
                   /\ relevance_column' = relevance_column
              ELSE /\ run_pc' = run_pc
                   /\ run_error' = run_error
                   /\ relevance_column' = Append(relevance_column,
                          _generate_relevance_list(NextRow.account_idx, NextRow.merchant_idx,
                                                   NextRow.merchant_idx_list,
                                                   run_scores_per_tuple))
    /\ UNCHANGED <<task, interactions_df, orders_df, run_scores_per_tuple, scores_dict,
                   filtered_df, output_written, output>>
    /\ UNCHANGED <<buildVars, scoreVars, evalVars, metaVars, ndcgVars, repeatVars>>

\* One item of starmap(_generate_random_relevance_list, ...): the shuffle is in
\* place, on the list object the filtered frame and the frame as read share.
BuildRandomRow ==
    /\ task = "random"
    /\ RowsLeft
    /\ \E shuffled \in Shuffles(NextRow.merchant_idx_list) :
          /\ filtered_df' = [filtered_df EXCEPT
                                ![Len(relevance_column) + 1].merchant_idx_list = shuffled]
          /\ orders_df' = [i \in DOMAIN orders_df |->
                              IF orders_df[i].order_id = NextRow.order_id
                              THEN [orders_df[i] EXCEPT !.merchant_idx_list = shuffled]
                              ELSE orders_df[i]]
          /\ relevance_column' = Append(relevance_column,
                 _generate_random_relevance_list(NextRow.merchant_idx, shuffled))
    /\ UNCHANGED <<task, interactions_df, run_pc, run_scores_per_tuple, scores_dict,
                   lookups, run_error, output_written, output>>
    /\ UNCHANGED <<buildVars, scoreVars, evalVars, metaVars, ndcgVars, repeatVars>>

\* One item of starmap(partial(_generate_relevance_list_from_merchant_scores, ...), ...).
BuildPopularRow ==
    /\ task = "popular"
    /\ RowsLeft
    /\ LET keys    == NextRow.merchant_idx_list
           missing == FirstMissing(keys, scores_dict)
       IN  /\ lookups' = lookups \cup ({NextRow.order_id} \X LookedUp(keys, scores_dict))
           /\ IF missing # <<>>
              THEN /\ run_pc' = "failed"
                   /\ run_error' = missing
                   /\ relevance_column' = relevance_column
              ELSE /\ run_pc' = run_pc
                   /\ run_error' = run_error
                   /\ relevance_column' = Append(relevance_column,
                          _generate_relevance_list_from_merchant_scores(
                              NextRow.merchant_idx, NextRow.merchant_idx_list, scores_dict))
    /\ UNCHANGED <<task, interactions_df, orders_df, run_scores_per_tuple, scores_dict,
                   filtered_df, output_written, output>>
    /\ UNCHANGED <<buildVars, scoreVars, evalVars, metaVars, ndcgVars, repeatVars>>

\* orders_df[["order_id", "relevance_list"]].to_csv(self.output().path, index=False)
SaveOutput ==
    /\ run_pc = "filtered"
    /\ Len(relevance_column) = Len(filtered_df)
    /\ output' = [i \in DOMAIN filtered_df |->
                     [order_id |-> filtered_df[i].order_id,
                      relevance_list |-> CsvField(ListRepr(relevance_column[i]))]]
    /\ output_written' = TRUE
    /\ run_pc' = "done"
    /\ UNCHANGED <<task, interactions_df, orders_df, run_scores_per_tuple, scores_dict,
                   filtered_df, relevance_column, lookups, run_error>>
    /\ UNCHANGED <<buildVars, scoreVars, evalVars, metaVars, ndcgVars, repeatVars>>

NextRun ==
    \/ ModelEvaluate
    \/ PopularScores
    \/ FilterOrders
    \/ BuildModelRow
    \/ BuildRandomRow
    \/ BuildPopularRow
    \/ SaveOutput

SpecRun == InitRun /\ [][NextRun]_vars

\* The chosen item of the row is one of its candidates.
ChosenInPool(row) ==
    \E i \in DOMAIN row.merchant_idx_list : row.merchant_idx_list[i] = row.merchant_idx

\* The vector is as long as the pool, holds only 0s and 1s, and sums to 1.
OneHotFor(v, pool) ==
    /\ Len(v) = Len(pool)
    /\ \A i \in DOMAIN v : v[i] \in {0, 1}
    /\ SumSeq(v) = 1

\* C3: every relevance vector a generator builds, and every one it writes to the
\* output file, for a retained transaction whose pool names no item twice is as
\* long as the pool, holds only 0s and 1s and sums to exactly 1.
C3_VectorsAreOneHot ==
    /\ \A i \in DOMAIN relevance_column :
          NoDuplicates(filtered_df[i].merchant_idx_list)
          => OneHotFor(relevance_column[i], filtered_df[i].merchant_idx_list)
    /\ output_written
       => /\ Len(output) = Len(filtered_df)
          /\ \A i \in DOMAIN output :
                NoDuplicates(filtered_df[i].merchant_idx_list)
                => OneHotFor(literal_eval(CsvValue(output[i].relevance_list)),
                             filtered_df[i].merchant_idx_list)

\* A generator wrote two vectors of two entries each.
C3_Witness ==
    /\ output_written
    /\ Len(output) = 2
    /\ \A i \in DOMAIN output :
          /\ Len(filtered_df[i].merchant_idx_list) = 2
          /\ NoDuplicates(filtered_df[i].merchant_idx_list)
          /\ SumSeq(literal_eval(CsvValue(output[i].relevance_list))) = 1

ExcludedIds == {orders_df[i].order_id : i \in {k \in DOMAIN orders_df : ~ChosenInPool(orders_df[k])}}

\* The order ids of the rows whose chosen item is in the pool, in frame order.
RECURSIVE IncludedIdSeq(_)
IncludedIdSeq(df) ==
    IF df = <<>> THEN <<>>
    ELSE (IF ChosenInPool(Head(df)) THEN <<Head(df).order_id>> ELSE <<>>)
         \o IncludedIdSeq(Tail(df))

\* C4: in each generation task the output table holds no transaction whose chosen
\* item is outside its pool and holds every other transaction exactly once, so
\* it has as many rows as the input less the excluded ones; no vector is built
\* and no score looked up before the filter, and never for an excluded one.
C4_ExcludedNeverInOutput ==
    /\ output_written
       => /\ [i \in DOMAIN output |-> output[i].order_id] = IncludedIdSeq(orders_df)
          /\ \A i \in DOMAIN output : output[i].order_id \notin ExcludedIds
          /\ Len(output) = Len(orders_df) - Cardinality(ExcludedIds)
    /\ \A l \in lookups : l[1] \notin ExcludedIds
    /\ (relevance_column # <<>> \/ lookups # {}) => run_pc \in {"filtered", "done", "failed"}
    /\ Len(relevance_column) <= Len(orders_df) - Cardinality(ExcludedIds)

\* A run wrote the one transaction it kept of two, after looking up its scores.
C4_Witness ==
    /\ output_written
    /\ Len(orders_df) = 2
    /\ Len(output) = 1
    /\ output[1].order_id = 2
    /\ lookups # {}

\* The pairs of the retained transactions that the score table lacks.
RetainedMissing ==
    {p \in Accounts \X RunMerchants :
        /\ p \notin DOMAIN run_scores_per_tuple
        /\ \E i \in DOMAIN orders_df :
              /\ ChosenInPool(orders_df[i])
              /\ orders_df[i].account_idx = p[1]
              /\ p[2] \in Range(orders_df[i].merchant_idx_list)}

\* What C6 says of every state of a model-scored run: a failed run carries the
\* first missing pair of the first transaction that has one and has written no
\* output; a written output means every retained transaction has its vector and
\* no pair of theirs is missing.
C6_StateOfModelRun ==
    task = "model"
    => /\ run_pc = "failed"
          => /\ ~output_written
             /\ ~ENABLED NextRun
             /\ Len(run_error) = 1
             /\ run_error[1] \in RetainedMissing
             /\ LET row == filtered_df[Len(relevance_column) + 1]
                IN  \E j \in DOMAIN row.merchant_idx_list :
                       /\ run_error[1] = <<row.account_idx, row.merchant_idx_list[j]>>
                       /\ \A k \in 1..(j - 1) :
                             <<row.account_idx, row.merchant_idx_list[k]>>
                                \in DOMAIN run_scores_per_tuple
       /\ output_written
          => /\ RetainedMissing = {}
             /\ Len(relevance_column) = Len(filtered_df)
             /\ run_error = <<>>

\* C6: when a retained transaction has a candidate whose pair the score table
\* lacks, the model-scored run ends failed, carrying the first such pair of the
\* first such transaction, takes no further step (it is not retried) and has
\* written no output; the output is written only once every retained
\* transaction has its vector.
C6_MissingPairAbortsBeforeOutput ==
    /\ []C6_StateOfModelRun
    /\ [][/\ run_pc # "failed"
          /\ (task = "model" /\ run_pc \in {"scored", "filtered"} /\ RetainedMissing # {})
             => ~output_written']_vars

\* The run failed on its second retained transaction, the first one built.
C6_Witness ==
    /\ task = "model"
    /\ run_pc = "failed"
    /\ Len(filtered_df) = 2
    /\ Len(relevance_column) = 1
    /\ Len(filtered_df[2].merchant_idx_list) = 2
    /\ run_error = <<<<filtered_df[2].account_idx, filtered_df[2].merchant_idx_list[2]>>>>

\* The buys of merchant m summed over the corpus, buy count by buy count.
RECURSIVE WeightedCount(_, _)
WeightedCount(B, m) ==
    IF B = {} THEN 0
    ELSE LET b == CHOOSE x \in B : TRUE
         IN  b * Cardinality({i \in DOMAIN interactions_df :
                                 /\ interactions_df[i].merchant_idx = m
                                 /\ interactions_df[i].buys = b})
             + WeightedCount(B \ {b}, m)

TotalBuys == [m \in RunMerchants |-> WeightedCount(Buys, m)]

HasInteractions(m) == \E i \in DOMAIN interactions_df : interactions_df[i].merchant_idx = m

\* The rank of position i of a pool ordered by descending total, tied candidates
\* by descending merchant index, equal entries in pool order.
RankByTotal(total, pool, i) ==
    1 + Cardinality({j \in DOMAIN pool :
            \/ total[pool[j]] > total[pool[i]]
            \/ total[pool[j]] = total[pool[i]] /\ pool[j] > pool[i]
            \/ total[pool[j]] = total[pool[i]] /\ pool[j] = pool[i] /\ j < i})

\* C8 as stated: in the most-popular run every candidate of every retained
\* transaction has a score, the exact sum of its buys over the corpus, which is 0
\* for an item with no interaction row, and the run ranks by it.
C8_EveryCandidateScoredBySum ==
    (task = "popular" /\ run_pc \in {"filtered", "done", "failed"})
    => /\ run_pc # "failed"
       /\ \A i \in DOMAIN filtered_df :
             \A j \in DOMAIN filtered_df[i].merchant_idx_list :
                LET m == filtered_df[i].merchant_idx_list[j]
                IN  m \in DOMAIN scores_dict /\ scores_dict[m] = TotalBuys[m]

\* C8 amended: the score table holds exactly the items that have an interaction
\* row, each with the exact sum of its buys over the whole corpus, whatever the
\* user; every vector built marks the chosen item at its rank by that sum; a
\* candidate with no interaction row has no score, and its lookup ends the run
\* with a KeyError before any output; a run that writes its output found a score
\* for every candidate. Scores and vectors are functions of corpus and orders.
C8_ItemsWithRowsScoredBySum ==
    (task = "popular" /\ run_pc \in {"scored", "filtered", "done", "failed"})
    => /\ DOMAIN scores_dict = {m \in RunMerchants : HasInteractions(m)}
       /\ \A m \in DOMAIN scores_dict : scores_dict[m] = TotalBuys[m]
       /\ LET total == TotalBuys
          IN  \A i \in DOMAIN relevance_column :
                 LET row == filtered_df[i]
                 IN  /\ Len(relevance_column[i]) = Len(row.merchant_idx_list)
                     /\ \A j \in DOMAIN row.merchant_idx_list :
                           /\ HasInteractions(row.merchant_idx_list[j])
                           /\ relevance_column[i][RankByTotal(total, row.merchant_idx_list, j)] =
                                 IF row.merchant_idx_list[j] = row.merchant_idx THEN 1 ELSE 0
       /\ run_pc = "failed"
          => /\ ~output_written
             /\ Len(run_error) = 1
             /\ ~HasInteractions(run_error[1])
             /\ run_error[1] \in Range(filtered_df[Len(relevance_column) + 1].merchant_idx_list)
       /\ run_pc = "done"
          => \A i \in DOMAIN filtered_df :
                \A j \in DOMAIN filtered_df[i].merchant_idx_list :
                   HasInteractions(filtered_df[i].merchant_idx_list[j])

\* Two users chose merchant 0 from the same pool; with 2 buys against 1 it is
\* ranked first for both.
C8_Witness ==
    /\ task = "popular"
    /\ run_pc = "done"
    /\ scores_dict = (0 :> 2 @@ 1 :> 1)
    /\ Len(filtered_df) = 2
    /\ filtered_df[1].account_idx # filtered_df[2].account_idx
    /\ \A i \in {1, 2} :
          /\ filtered_df[i].merchant_idx_list = <<1, 0>>
          /\ filtered_df[i].merchant_idx = 0
          /\ relevance_column[i] = <<1, 0>>


\* ------------------------------------------------- SpecEval: EvaluateIfoodModel.run
\* The relevance-list file is read back, each row's text is parsed in a pool of
\* num_processes workers, the ranking metrics are computed row by row in the same
\* pool, and the summary (count and means) and the per-order table are written.

MaxVectors == 2
MaxProcesses == 2
RelevanceVectors == SeqsUpTo({0, 1}, 3)

\* Exact arithmetic on the metric values: a value is n/d in lowest terms, 0/0
\* is the NaN that the mean of an empty column gives.
RECURSIVE GCD(_, _)
GCD(a, b) == IF b = 0 THEN a ELSE GCD(b, a % b)

Frac(n, d) == LET g == GCD(n, d) IN [n |-> n \div g, d |-> d \div g]

NaN == [n |-> 0, d |-> 0]

FracAdd(x, y) == Frac(x.n * y.d + y.n * x.d, x.d * y.d)

RECURSIVE SumFrac(_)
SumFrac(column) ==
    IF column = <<>> THEN Frac(0, 1) ELSE FracAdd(Head(column), SumFrac(Tail(column)))

\* column.mean()
Mean(column) ==
    IF column = <<>> THEN NaN
    ELSE LET total == SumFrac(column) IN Frac(total.n, total.d * Len(column))

\* rank_metrics.precision_at_k(r, k): the mean of the first k entries taken as
\* booleans.
precision_at_k(r, k) == Frac(Cardinality({j \in 1..k : r[j] # 0}), k)

\* rank_metrics.average_precision(r): the mean of precision_at_k over the
\* positions that hold a relevant entry, 0 when there is none.
average_precision(r) ==
    LET hits == SelectSeq([i \in DOMAIN r |-> i], LAMBDA i : r[i] # 0)
        out  == [j \in DOMAIN hits |-> precision_at_k(r, hits[j])]
    IN IF out = <<>> THEN Frac(0, 1) ELSE Mean(out)

\* 1/log2(i+1) for the positions i = 1..8, in ten-thousandths.
InvLog2 == <<10000, 6309, 5000, 4307, 3869, 3562, 3333, 3155>>

\* The first k entries of r.
Truncated(r, k) == SubSeq(r, 1, Min(k, Len(r)))

\* rank_metrics.dcg_at_k(r, k): the sum of rel[i]/log2(i+1) over the first k
\* positions, in ten-thousandths.
RECURSIVE DcgFrom(_, _)
DcgFrom(r, i) ==
    IF i > Len(r) THEN 0 ELSE r[i] * InvLog2[i] + DcgFrom(r, i + 1)

dcg_at_k(r, k) == DcgFrom(Truncated(r, k), 1)

\* sorted(r, reverse=True) of a 0/1 vector: the ones first.
IdealOrder(r) ==
    LET ones == Cardinality({i \in DOMAIN r : r[i] = 1})
    IN [i \in DOMAIN r |-> IF i <= ones THEN 1 ELSE 0]

\* rank_metrics.ndcg_at_k(r, k): DCG@k over the DCG@k of the ideal order, 0
\* when the ideal DCG is 0; the quotient is kept to four decimals.
ndcg_at_k(r, k) ==
    LET dcg_max == dcg_at_k(IdealOrder(r), k)
    IN IF dcg_max = 0 THEN Frac(0, 1)
       ELSE Frac((dcg_at_k(r, k) * 10000) \div dcg_max, 10000)


\* The seven p.map calls of run, in program order: the column each one
\* assigns, the function it maps and the cutoff bound by functools.partial.
EvalStages ==
    << [column |-> "relevance_list",    func |-> "literal_eval",      k |-> 0],
       [column |-> "average_precision", func |-> "average_precision", k |-> 0],
       [column |-> "ndcg_at_5",         func |-> "ndcg_at_k",         k |-> 5],
       [column |-> "ndcg_at_10",        func |-> "ndcg_at_k",         k |-> 10],
       [column |-> "ndcg_at_15",        func |-> "ndcg_at_k",         k |-> 15],
       [column |-> "ndcg_at_20",        func |-> "ndcg_at_k",         k |-> 20],
       [column |-> "ndcg_at_50",        func |-> "ndcg_at_k",         k |-> 50] >>

\* The same calls with ndcg_at_k(k=5) mapped for the average_precision column.
StagesWithNdcgForPrecision ==
    [i \in DOMAIN EvalStages |->
        IF EvalStages[i].column = "average_precision"
        THEN [column |-> "average_precision", func |-> "ndcg_at_k", k |-> 5]
        ELSE EvalStages[i]]

MappedStages == EvalStages

\* func(item) for the function a p.map call maps.
ApplyStage(st, item) ==
    CASE st.func = "literal_eval"      -> literal_eval(item)
      [] st.func = "average_precision" -> average_precision(item)
      [] st.func = "ndcg_at_k"         -> ndcg_at_k(item, st.k)

\* Pool.map cuts the iterable into chunks of ceil(len / (4 * processes))
\* items; a chunk is one task.
PoolChunks(n, processes) ==
    IF n = 0 THEN <<>>
    ELSE LET chunksize == (n + 4 * processes - 1) \div (4 * processes)
         IN [c \in 1..((n + chunksize - 1) \div chunksize) |->
                [i \in 1..Min(chunksize, n - (c - 1) * chunksize) |-> (c - 1) * chunksize + i]]

\* The slot a finished chunk's results are stored in: its own position in the
\* iterable, whatever finished before it.
CompletionSlot(chunk, stored) == Cardinality(DOMAIN stored) + 1

ResultSlot(chunk, stored) == chunk

\* The list p.map returns: the stored chunk results joined in slot order.
RECURSIVE JoinFrom(_, _, _)
JoinFrom(stored, i, n) ==
    IF i > n THEN <<>> ELSE stored[i] \o JoinFrom(stored, i + 1, n)

MapResult(stored, n) == JoinFrom(stored, 1, n)

\* df[column] = values
WithColumn(frame, column, values) == (column :> values) @@ frame

\* df.drop(columns=[column])
DropColumn(frame, column) == [c \in (DOMAIN frame) \ {column} |-> frame[c]]

MetricColumns ==
    {"average_precision", "ndcg_at_5", "ndcg_at_10", "ndcg_at_15", "ndcg_at_20", "ndcg_at_50"}

\* The metrics dictionary: len(df) and the mean of each metric column.
MetricsOf(frame) ==
    ("count" :> Len(frame["order_id"])) @@ [c \in MetricColumns |-> Mean(frame[c])]

\* The frame as to_csv writes it: one row per position, every column's entry.
TableRows(frame) ==
    [i \in 1..Len(frame["order_id"]) |-> [c \in DOMAIN frame |-> frame[c][i]]]

EvalFrames ==
    UNION {[1..n -> RelevanceVectors] : n \in 0..MaxVectors}

InitEval ==
    /\ \E vectors \in EvalFrames :
          csv_rows = [i \in DOMAIN vectors |->
                         [order_id |-> i, relevance_list |-> CsvField(ListRepr(vectors[i]))]]
    /\ num_processes \in 1..MaxProcesses
    /\ ev_pc = "start"
    /\ eval_df = <<>>
    /\ stage = 0
    /\ tasks_taken = 0
    /\ in_flight = {}
    /\ results = <<>>
    /\ metrics = <<>>
    /\ orders_with_metrics = <<>>
    /\ IdleBuild
    /\ IdleScore
    /\ IdleRun
    /\ IdleMeta
    /\ IdleNdcg
    /\ IdleRepeat

\* df = pd.read_csv(self.input().path); with Pool(self.num_processes) as p:
ReadCsv ==
    /\ ev_pc = "start"
    /\ eval_df' = ("order_id" :> [i \in DOMAIN csv_rows |-> csv_rows[i].order_id]) @@
                  ("relevance_list" :>
                       [i \in DOMAIN csv_rows |-> CsvValue(csv_rows[i].relevance_list)])
    /\ stage' = 1
    /\ ev_pc' = "mapping"
    /\ UNCHANGED <<csv_rows, num_processes, tasks_taken, in_flight, results, metrics,
                   orders_with_metrics>>
    /\ UNCHANGED <<buildVars, scoreVars, runVars, metaVars, ndcgVars, repeatVars>>

StageChunks == PoolChunks(Len(eval_df["order_id"]), num_processes)

\* An idle worker takes the next chunk off the task queue.
TakeTask ==
    /\ ev_pc = "mapping"
    /\ Cardinality(in_flight) < num_processes
    /\ tasks_taken < Len(StageChunks)
    /\ tasks_taken' = tasks_taken + 1
    /\ in_flight' = in_flight \cup {tasks_taken + 1}
    /\ UNCHANGED <<csv_rows, num_processes, ev_pc, eval_df, stage, results, metrics,
                   orders_with_metrics>>
    /\ UNCHANGED <<buildVars, scoreVars, runVars, metaVars, ndcgVars, repeatVars>>

\* A worker finishes its chunk: the function applied to each item of the
\* chunk, stored at the chunk's slot.
FinishTask ==
    /\ ev_pc = "mapping"
    /\ \E chunk \in in_flight :
          LET items == StageChunks[chunk]
              done  == [j \in DOMAIN items |->
                           ApplyStage(MappedStages[stage], eval_df["relevance_list"][items[j]])]
          IN /\ results' = (ResultSlot(chunk, results) :> done) @@ results
             /\ in_flight' = in_flight \ {chunk}
    /\ UNCHANGED <<csv_rows, num_processes, ev_pc, eval_df, stage, tasks_taken, metrics,
                   orders_with_metrics>>
    /\ UNCHANGED <<buildVars, scoreVars, runVars, metaVars, ndcgVars, repeatVars>>

\* p.map returns once every chunk is done; its list becomes the column.
AssignColumn ==
    /\ ev_pc = "mapping"
    /\ tasks_taken = Len(StageChunks)
    /\ in_flight = {}
    /\ eval_df' = WithColumn(eval_df, MappedStages[stage].column,
                             MapResult(results, Len(StageChunks)))
    /\ tasks_taken' = 0
    /\ results' = <<>>
    /\ IF stage < Len(MappedStages)
       THEN stage' = stage + 1 /\ ev_pc' = "mapping"
       ELSE stage' = stage /\ ev_pc' = "mapped"
    /\ UNCHANGED <<csv_rows, num_processes, in_flight, metrics, orders_with_metrics>>
    /\ UNCHANGED <<buildVars, scoreVars, runVars, metaVars, ndcgVars, repeatVars>>

\* The pool is left; the relevance_list column is dropped, the summary is
\* computed and both files are written.
WriteMetrics ==
    /\ ev_pc = "mapped"
    /\ eval_df' = DropColumn(eval_df, "relevance_list")
    /\ metrics' = MetricsOf(eval_df')
    /\ orders_with_metrics' = TableRows(eval_df')
    /\ ev_pc' = "done"
    /\ UNCHANGED <<csv_rows, num_processes, stage, tasks_taken, in_flight, results>>
    /\ UNCHANGED <<buildVars, scoreVars, runVars, metaVars, ndcgVars, repeatVars>>

NextEval ==
    \/ ReadCsv
    \/ TakeTask
    \/ FinishTask
    \/ AssignColumn
    \/ WriteMetrics

SpecEval == InitEval /\ [][NextEval]_vars


\* The relevance vector written in row i of the file that was read.
VectorOf(i) == literal_eval(CsvValue(csv_rows[i].relevance_list))

\* The value of metric column c for the vector v.
MetricValue(c, v) ==
    CASE c = "average_precision" -> average_precision(v)
      [] c = "ndcg_at_5"         -> ndcg_at_k(v, 5)
      [] c = "ndcg_at_10"        -> ndcg_at_k(v, 10)
      [] c = "ndcg_at_15"        -> ndcg_at_k(v, 15)
      [] c = "ndcg_at_20"        -> ndcg_at_k(v, 20)
      [] c = "ndcg_at_50"        -> ndcg_at_k(v, 50)

\* The sum of metric c over all the vectors of the file.
VectorTotal(c) == SumFrac([i \in DOMAIN csv_rows |-> MetricValue(c, VectorOf(i))])

\* mean = total / count, cross-multiplied.
IsMeanOf(mean, total, count) ==
    /\ mean.d > 0
    /\ mean.n * total.d * count = total.n * mean.d

\* C7: for every non-empty file of relevance vectors, every pool size and
\* every scheduling of the workers, the summary written by
\* EvaluateIfoodModel.run has count = the number of vectors and, for each
\* metric, the arithmetic mean of the per-vector values; row i of the table
\* written holds the order_id of row i and the metric values computed from row
\* i's own vector, and the relevance_list column is gone.
C7_SummaryIsMeanInInputOrder ==
    (ev_pc = "done" /\ csv_rows # <<>>) =>
        /\ metrics["count"] = Len(csv_rows)
        /\ \A c \in MetricColumns : IsMeanOf(metrics[c], VectorTotal(c), Len(csv_rows))
        /\ Len(orders_with_metrics) = Len(csv_rows)
        /\ \A i \in DOMAIN csv_rows :
              /\ DOMAIN orders_with_metrics[i] = {"order_id"} \cup MetricColumns
              /\ orders_with_metrics[i]["order_id"] = csv_rows[i].order_id
              /\ \A c \in MetricColumns :
                    orders_with_metrics[i][c] = MetricValue(c, VectorOf(i))

\* A run with two workers over two rows whose vectors give different metric
\* values has written both files.
C7_Witness ==
    /\ ev_pc = "done"
    /\ num_processes = 2
    /\ Len(csv_rows) = 2
    /\ VectorOf(1) = <<0, 1>>
    /\ VectorOf(2) = <<1, 0, 0>>
    /\ metrics["count"] = 2
    /\ metrics["average_precision"] = [n |-> 3, d |-> 4]
    /\ orders_with_metrics[1]["average_precision"] = [n |-> 1, d |-> 2]
    /\ orders_with_metrics[2]["average_precision"] = [n |-> 1, d |-> 1]

RECURSIVE Factorial(_)
Factorial(n) == IF n = 0 THEN 1 ELSE n * Factorial(n - 1)

OnesUpTo(v, i) == Cardinality({j \in 1..i : v[j] = 1})

\* Factorial(Len(v)) times the sum, over the positions j >= i holding a 1, of
\* (number of 1s in positions 1..j) / j.
RECURSIVE ScaledPrecisionSum(_, _)
ScaledPrecisionSum(v, i) ==
    IF i > Len(v) THEN 0
    ELSE (IF v[i] = 1 THEN OnesUpTo(v, i) * (Factorial(Len(v)) \div i) ELSE 0)
         + ScaledPrecisionSum(v, i + 1)

\* ap is the mean over the positions holding a 1 of (1s so far) / position.
IsMeanPrecision(ap, v) ==
    /\ ap.d > 0
    /\ GCD(ap.n, ap.d) = 1
    /\ ap.n * OnesUpTo(v, Len(v)) * Factorial(Len(v)) = ap.d * ScaledPrecisionSum(v, 1)

\* C10: the average_precision column that run computes holds, for each row's
\* 0/1 vector, the mean over the 1-indexed positions i holding a 1 of (number
\* of 1s in positions 1..i) / i, and 0 when the vector has no 1; for a vector
\* with a single 1 at position p it is 1/p: [1] gives 1, [0,1] gives 1/2 and
\* [0,0,0] gives 0.
C10_AveragePrecisionIsMeanOfPrecisions ==
    (ev_pc # "idle" /\ "average_precision" \in DOMAIN eval_df) =>
        \A i \in DOMAIN csv_rows :
            LET v  == VectorOf(i)
                ap == eval_df["average_precision"][i]
            IN /\ OnesUpTo(v, Len(v)) = 0 => ap = [n |-> 0, d |-> 1]
               /\ OnesUpTo(v, Len(v)) > 0 => IsMeanPrecision(ap, v)
               /\ \A p \in DOMAIN v :
                     (v[p] = 1 /\ OnesUpTo(v, Len(v)) = 1) => ap = [n |-> 1, d |-> p]
               /\ v = <<1>> => ap = [n |-> 1, d |-> 1]
               /\ v = <<0, 1>> => ap = [n |-> 1, d |-> 2]
               /\ v = <<0, 0, 0>> => ap = [n |-> 0, d |-> 1]

\* The column has been computed for a file holding [0,1] and [0,0,0].
C10_Witness ==
    /\ ev_pc = "mapping"
    /\ stage = 3
    /\ Len(csv_rows) = 2
    /\ VectorOf(1) = <<0, 1>>
    /\ VectorOf(2) = <<0, 0, 0>>
    /\ eval_df["average_precision"] = <<[n |-> 1, d |-> 2], [n |-> 0, d |-> 1]>>


\* ------------------------------------------------- SpecMeta: preprocess_metadata_data_frame
\* The metadata table is indexed by the item column and sorted by it, the
\* index is compared with 0..N-1, and one array per metadata column is built
\* from the sorted rows.

MaxMeta == 3
MetaValues == {0, 1}

\* project_config.metadata_columns, by name.
metadata_columns == <<"category", "price">>

MetaRows == [item_idx : 0..MaxMeta, category : MetaValues, price : MetaValues]

\* The frame in its own row order (what not sorting would leave).
KeepRowOrder(frame) == {frame}

\* set_index(item_column, drop=False).sort_index(): the rows in non-decreasing
\* order of the index; rows with equal index values in either order.
sort_index(frame) ==
    {o \in Orderings(frame) : \A i, j \in DOMAIN o : i < j => o[i].item_idx <= o[j].item_idx}

\* (np.arange(0, len(index)) == index).all()
IsArange(frame) == \A i \in DOMAIN frame : frame[i].item_idx = i - 1

\* metadata_data_frame[column].values.tolist() as an array.
ColumnArray(frame, column) == [i \in DOMAIN frame |-> frame[i][column]]

InitMeta ==
    /\ metadata_arg \in SeqsUpTo(MetaRows, MaxMeta)
    /\ metadata_data_frame = <<>>
    /\ meta_pc = "start"
    /\ columns_done = 0
    /\ embeddings_for_metadata = <<>>
    /\ value_error = ""
    /\ IdleBuild
    /\ IdleScore
    /\ IdleRun
    /\ IdleEval
    /\ IdleNdcg
    /\ IdleRepeat

\* metadata_data_frame = metadata_data_frame.set_index(...).sort_index()
SortIndex ==
    /\ meta_pc = "start"
    /\ metadata_data_frame' \in sort_index(metadata_arg)
    /\ meta_pc' = "sorted"
    /\ UNCHANGED <<metadata_arg, columns_done, embeddings_for_metadata, value_error>>
    /\ UNCHANGED <<buildVars, scoreVars, runVars, evalVars, ndcgVars, repeatVars>>

\* if not (np.arange(...) == index).all(): raise ValueError(...)
\* embeddings_for_metadata = {}
CheckIndex ==
    /\ meta_pc = "sorted"
    /\ IF IsArange(metadata_data_frame)
       THEN /\ meta_pc' = "building"
            /\ value_error' = value_error
       ELSE /\ meta_pc' = "raised"
            /\ value_error' = "The item index is not contiguous"
    /\ UNCHANGED <<metadata_arg, metadata_data_frame, columns_done, embeddings_for_metadata>>
    /\ UNCHANGED <<buildVars, scoreVars, runVars, evalVars, ndcgVars, repeatVars>>

\* One turn of the loop over project_config.metadata_columns.
BuildEmbedding ==
    /\ meta_pc = "building"
    /\ columns_done < Len(metadata_columns)
    /\ LET column == metadata_columns[columns_done + 1]
       IN embeddings_for_metadata' =
              (column :> ColumnArray(metadata_data_frame, column)) @@ embeddings_for_metadata
    /\ columns_done' = columns_done + 1
    /\ UNCHANGED <<metadata_arg, metadata_data_frame, meta_pc, value_error>>
    /\ UNCHANGED <<buildVars, scoreVars, runVars, evalVars, ndcgVars, repeatVars>>

\* return embeddings_for_metadata
ReturnEmbeddings ==
    /\ meta_pc = "building"
    /\ columns_done = Len(metadata_columns)
    /\ meta_pc' = "returned"
    /\ UNCHANGED <<metadata_arg, metadata_data_frame, columns_done, embeddings_for_metadata,
                   value_error>>
    /\ UNCHANGED <<buildVars, scoreVars, runVars, evalVars, ndcgVars, repeatVars>>

NextMeta ==
    \/ SortIndex
    \/ CheckIndex
    \/ BuildEmbedding
    \/ ReturnEmbeddings

SpecMeta == InitMeta /\ [][NextMeta]_vars

\* The item index values of the table are exactly 0..N-1, each once.
DenseIndex ==
    \A k \in 0..(Len(metadata_arg) - 1) :
        Cardinality({i \in DOMAIN metadata_arg : metadata_arg[i].item_idx = k}) = 1

\* C9: preprocess_metadata_data_frame raises its ValueError exactly when the
\* item index values of the table are not the dense range 0..N-1, and then no
\* embedding has been built; when the index is dense, in whatever row order,
\* the function goes on and returns one array per metadata column, of N
\* entries, whose k-th entry (from 0) is the value of the row with item index k.
C9_RaisesIffIndexNotDense ==
    /\ meta_pc = "raised" =>
          /\ ~DenseIndex
          /\ value_error = "The item index is not contiguous"
          /\ embeddings_for_metadata = <<>>
          /\ columns_done = 0
    /\ meta_pc \in {"building", "returned"} => DenseIndex /\ value_error = ""
    /\ meta_pc = "returned" =>
          /\ DOMAIN embeddings_for_metadata = Range(metadata_columns)
          /\ \A c \in Range(metadata_columns) :
                /\ Len(embeddings_for_metadata[c]) = Len(metadata_arg)
                /\ \A i \in DOMAIN metadata_arg :
                      embeddings_for_metadata[c][metadata_arg[i].item_idx + 1] = metadata_arg[i][c]

\* A table with a dense index in reverse row order was returned in index order.
C9_Witness ==
    /\ meta_pc = "returned"
    /\ Len(metadata_arg) = 3
    /\ [i \in 1..3 |-> metadata_arg[i].item_idx] = <<2, 0, 1>>
    /\ [i \in 1..3 |-> metadata_arg[i].category] = <<1, 0, 1>>
    /\ embeddings_for_metadata["category"] = <<0, 1, 1>>


\* ------------------------------------------------- SpecNdcg: one call of ndcg_at_k
\* run maps functools.partial(ndcg_at_k, k=k) over the relevance vectors for
\* k = 5, 10, 15, 20, 50; here one such call is made on one vector, with the
\* cutoffs of run and every smaller one.

MaxRelLen == 6
MaxCutoff == 5

NdcgVectors == SeqsUpTo({0, 1}, MaxRelLen)

\* The cutoffs run binds.
RunCutoffs == {EvalStages[i].k : i \in {j \in DOMAIN EvalStages : EvalStages[j].func = "ndcg_at_k"}}

Cutoffs == (1..MaxCutoff) \cup RunCutoffs

\* The call with the cutoff left out: the whole vector is ranked.
NdcgWithoutCutoff(k, r) == ndcg_at_k(r, Len(r))

\* functools.partial(ndcg_at_k, k=k)(r)
PartialNdcg(k, r) == ndcg_at_k(r, k)

InitNdcg ==
    /\ ndcg_r \in NdcgVectors
    /\ ndcg_k \in Cutoffs
    /\ ndcg_out = <<>>
    /\ IdleBuild
    /\ IdleScore
    /\ IdleRun
    /\ IdleEval
    /\ IdleMeta
    /\ IdleRepeat

CallNdcg ==
    /\ ndcg_out = <<>>
    /\ ndcg_out' = <<PartialNdcg(ndcg_k, ndcg_r)>>
    /\ UNCHANGED <<ndcg_r, ndcg_k>>
    /\ UNCHANGED <<buildVars, scoreVars, runVars, evalVars, metaVars, repeatVars>>

NextNdcg == CallNdcg

SpecNdcg == InitNdcg /\ [][NextNdcg]_vars

\* The positions of ndcg_r holding a 1.
OnePositions == {i \in DOMAIN ndcg_r : ndcg_r[i] = 1}

\* C11: ndcg_at_k of a vector with its single 1 at position p is 1 when p = 1
\* (k >= 1), is 1/log2(p+1) when 1 < p <= k (to four decimals; less than the
\* value for p - 1, and 0.6309 for p = 2, k = 5), is 0 when k < p, and is 0
\* for a vector with no 1.
C11_NdcgOfSingleHit ==
    ndcg_out # <<>> =>
        LET v == ndcg_out[1]
        IN /\ OnePositions = {} => v = [n |-> 0, d |-> 1]
           /\ \A p \in DOMAIN ndcg_r :
                 OnePositions = {p} =>
                    /\ p = 1 => v = [n |-> 1, d |-> 1]
                    /\ (1 < p /\ p <= ndcg_k) =>
                          /\ v.d > 0
                          /\ v.n * 10000 = InvLog2[p] * v.d
                          /\ InvLog2[p] < InvLog2[p - 1]
                    /\ (p = 2 /\ ndcg_k = 5) => v = [n |-> 6309, d |-> 10000]
                    /\ ndcg_k < p => v = [n |-> 0, d |-> 1]

\* The call with k = 5 on a vector whose only 1 is at position 6 returned 0.
C11_Witness ==
    /\ ndcg_r = <<0, 0, 0, 0, 0, 1>>
    /\ ndcg_k = 5
    /\ ndcg_out = <<[n |-> 0, d |-> 1]>>


\* ------------------------------------------------- SpecRepeat: repeated builder calls
\* _generate_relevance_list is called again and again with the same list
\* object and the same dictionary; every call reads them as the previous call
\* left them.

MaxCalls == 2

\* The score tables of the repeated calls: every candidate of the account
\* scored, or all but one.
RepeatTables(account) ==
    UNION {[{account} \X D -> Scores] : D \in {Merchants} \cup {Merchants \ {x} : x \in Merchants}}

\* The vectors a call of the shuffling builder can return.
ShuffledOutcomes(account, ordered, idx_list, per_tuple) ==
    {_generate_random_relevance_list(ordered, s) : s \in Shuffles(idx_list)}

\* The vectors a call can return: the function reads nothing but its
\* arguments and draws nothing at random, so there is one.
RelevanceListOutcomes(account, ordered, idx_list, per_tuple) ==
    {_generate_relevance_list(account, ordered, idx_list, per_tuple)}

InitRepeat ==
    /\ builder = "model"
    /\ account_idx \in Accounts
    /\ ordered_merchant_idx \in Merchants
    /\ merchant_idx_list \in SeqsUpTo(Merchants, MaxLen)
    /\ scores_per_tuple \in RepeatTables(account_idx)
    /\ scores_per_merchant = <<>>
    /\ outcome = "ready"
    /\ relevance_list = <<>>
    /\ key_error = <<>>
    /\ calls = 0
    /\ first_result = <<>>
    /\ IdleScore
    /\ IdleRun
    /\ IdleEval
    /\ IdleMeta
    /\ IdleNdcg

\* One more call with the same arguments.
CallAgain ==
    /\ builder = "model"
    /\ calls < MaxCalls
    /\ LET missing == FirstMissing(TupleKeys(account_idx, merchant_idx_list), scores_per_tuple)
       IN  IF missing # <<>>
           THEN /\ outcome' = "raised"
                /\ key_error' = missing
                /\ relevance_list' = <<>>
           ELSE /\ outcome' = "returned"
                /\ key_error' = <<>>
                /\ relevance_list' \in RelevanceListOutcomes(
                        account_idx, ordered_merchant_idx, merchant_idx_list, scores_per_tuple)
    /\ calls' = calls + 1
    /\ first_result' = IF calls = 0 THEN <<outcome', relevance_list', key_error'>>
                       ELSE first_result
    /\ UNCHANGED <<builder, account_idx, ordered_merchant_idx, merchant_idx_list,
                   scores_per_tuple, scores_per_merchant>>
    /\ UNCHANGED <<scoreVars, runVars, evalVars, metaVars, ndcgVars>>

NextRepeat == CallAgain

SpecRepeat == InitRepeat /\ [][NextRepeat]_vars

C13_BuildersOnlyReadInputs ==
    [][outcome' = "returned" =>
          /\ merchant_idx_list' = merchant_idx_list
          /\ scores_per_tuple' = scores_per_tuple
          /\ scores_per_merchant' = scores_per_merchant]_vars

====
